---- MODULE Spec2Model ----
(***************************************************************************)
(* Model of the HTTP handlers of main.py (pentair-control-web): the        *)
(* validation and mapping layer between the FastAPI routes and the pump    *)
(* driver.  A request is received, waits for the event loop, and its       *)
(* handler then runs one driver call (or one raise/return) per step.       *)
(* JSON values are modelled as sequences of integers: a scalar v is <<v>>, *)
(* a list [h, m] is <<h, m>>, True/False are <<1>>/<<0>> (Python's bool is *)
(* an int).  A request body is a function whose domain is the set of       *)
(* fields that are present (not None).                                     *)
(***************************************************************************)
EXTENDS Integers, Sequences, FiniteSets, TLC

VARIABLES request, phase, pc, local, resp, dev, prog, calls, loop

vars == <<request, phase, pc, local, resp, dev, prog, calls, loop>>

(***************************************************************************)
(* Bounds of the model.                                                    *)
(***************************************************************************)
\* most optional fields present in one request body
MaxFields == 2

\* the requests of a scenario
ReqIds == {"A", "B"}

(***************************************************************************)
(* Tables of the source.                                                   *)
(***************************************************************************)
\* run codes of the device
RUN_START == 10
RUN_STOP == 4

\* FieldOrder with ramp handled before speed
FieldOrderMut ==
    << "state", "ramp", "speed", "celsius", "fahrenheit", "contrast", "address",
       "id", "ampm", "max_rpm", "min_rpm", "quick_rpm", "quick_timer",
       "prime_enable", "prime_max_time", "prime_sensitivity", "prime_delay",
       "antifreeze_enable", "antifreeze_rpm", "antifreeze_temp",
       "svrs_restart_enable", "svrs_restart_timer", "time_out_timer",
       "running_program", "selected_program" >>

\* PumpControl: the optional fields, in the order control_pump handles them
FieldOrder ==
    << "state", "speed", "ramp", "celsius", "fahrenheit", "contrast", "address",
       "id", "ampm", "max_rpm", "min_rpm", "quick_rpm", "quick_timer",
       "prime_enable", "prime_max_time", "prime_sensitivity", "prime_delay",
       "antifreeze_enable", "antifreeze_rpm", "antifreeze_temp",
       "svrs_restart_enable", "svrs_restart_timer", "time_out_timer",
       "running_program", "selected_program" >>

NFields == Len(FieldOrder)

Fields == {FieldOrder[i] : i \in 1..NFields}

BoolFields ==
    {"state", "celsius", "fahrenheit", "ampm", "prime_enable",
     "antifreeze_enable", "svrs_restart_enable"}

TimerFields == {"quick_timer", "time_out_timer"}

RangedFields == Fields \ (BoolFields \cup TimerFields)

\* the inclusive bounds control_pump tests each integer field against
Range(f) ==
    CASE f = "speed" -> <<450, 3450>>
      [] f = "ramp" -> <<100, 200>>
      [] f = "contrast" -> <<1, 3>>
      [] f = "address" -> <<96, 97>>
      [] f = "id" -> <<1, 2>>
      [] f = "max_rpm" -> <<3445, 3450>>
      [] f = "min_rpm" -> <<1100, 1105>>
      [] f = "quick_rpm" -> <<2000, 3000>>
      [] f = "prime_max_time" -> <<1, 30>>
      [] f = "prime_sensitivity" -> <<1, 100>>
      [] f = "prime_delay" -> <<1, 600>>
      [] f = "antifreeze_rpm" -> <<1100, 3000>>
      [] f = "antifreeze_temp" -> <<40, 50>>
      [] f = "svrs_restart_timer" -> <<30, 300>>
      [] f = "running_program" -> <<1, 4>>
      [] f = "selected_program" -> <<1, 8>>

\* the detail text of the HTTPException(400) control_pump raises for a field
Detail(f) ==
    CASE f = "speed" -> "Speed must be between 450 and 3450 RPM"
      [] f = "ramp" -> "Ramp must be between 100 and 200"
      [] f = "contrast" -> "Contrast must be between 1 and 3"
      [] f = "address" -> "Address must be between 96 and 97"
      [] f = "id" -> "ID must be between 1 and 2"
      [] f = "max_rpm" -> "Max RPM must be between 3445 and 3450"
      [] f = "min_rpm" -> "Min RPM must be between 1100 and 1105"
      [] f = "quick_rpm" -> "Quick RPM must be between 2000 and 3000"
      [] f = "quick_timer" -> "Quick timer hours 0-9, minutes 0-59"
      [] f = "prime_max_time" -> "Prime max time must be between 1 and 30"
      [] f = "prime_sensitivity" -> "Prime sensitivity must be between 1 and 100"
      [] f = "prime_delay" -> "Prime delay must be between 1 and 600"
      [] f = "antifreeze_rpm" -> "Antifreeze RPM must be between 1100 and 3000"
      [] f = "antifreeze_temp" -> "Antifreeze temp must be between 40 and 50"
      [] f = "svrs_restart_timer" -> "SVRS restart timer must be between 30 and 300"
      [] f = "time_out_timer" -> "Time out timer hours 0-9, minutes 0-59"
      [] f = "running_program" -> "Running program must be between 1 and 4"
      [] f = "selected_program" -> "Selected program must be between 1 and 4"

\* Register with speed assigned to the ramp attribute
RegisterMut(f) ==
    CASE f = "state" -> "run"
      [] f = "speed" -> "ramp"
      [] f = "running_program" -> "RUNNING_PROGRAM"
      [] OTHER -> f

\* the driver attribute (register) control_pump assigns for a field
Register(f) ==
    CASE f = "state" -> "run"
      [] f = "speed" -> "trpm"
      [] f = "running_program" -> "RUNNING_PROGRAM"
      [] OTHER -> f

\* the value control_pump hands to the driver for field f carrying v
Mapped(f, v) ==
    CASE f = "state" -> IF v[1] # 0 THEN <<RUN_START>> ELSE <<RUN_STOP>>
      [] f = "running_program" -> <<v[1] * 8>>
      [] OTHER -> v

\* Check with the upper end of an integer range left out
CheckMut(f, v) ==
    CASE f \in {"state", "celsius", "fahrenheit", "ampm", "prime_enable",
                "antifreeze_enable", "svrs_restart_enable"} -> "ok"
      [] f \in {"quick_timer", "time_out_timer"} ->
            IF Len(v) < 2 THEN "index"
            ELSE IF 0 <= v[1] /\ v[1] <= 9 /\ 0 <= v[2] /\ v[2] <= 59
                 THEN "ok" ELSE "reject"
      [] OTHER ->
            IF Range(f)[1] <= v[1] /\ v[1] < Range(f)[2] THEN "ok" ELSE "reject"

\* control_pump's test of a present field: "ok", "reject" (HTTPException 400)
\* or "index" (IndexError of quick_timer[1] on a list shorter than two)
Check(f, v) ==
    CASE f \in BoolFields -> "ok"
      [] f \in TimerFields ->
            IF Len(v) < 2 THEN "index"
            ELSE IF 0 <= v[1] /\ v[1] <= 9 /\ 0 <= v[2] /\ v[2] <= 59
                 THEN "ok" ELSE "reject"
      [] OTHER ->
            IF Range(f)[1] <= v[1] /\ v[1] <= Range(f)[2] THEN "ok" ELSE "reject"

\* ProgramControl: the optional fields, in the order control_program handles them
ProgramOrder == <<"mode", "rpm", "schedule_start", "schedule_end", "egg_timer">>

ProgramFields == {ProgramOrder[i] : i \in 1..Len(ProgramOrder)}

ClockFields == {"schedule_start", "schedule_end", "egg_timer"}

\* mode_map of control_program
ModeMap(label) ==
    CASE label = "MANUAL" -> 0
      [] label = "EGG_TIMER" -> 1
      [] label = "SCHEDULE" -> 2
      [] label = "DISABLED" -> 3

ModeLabels == {"MANUAL", "EGG_TIMER", "SCHEDULE", "DISABLED"}

\* the list get_config indexes with program.mode
ConfigModeLabels == <<"MANUAL", "EGG_TIMER", "SCHEDULE">>

\* the detail text of the HTTPException(400) control_program raises for a field
ProgramDetail(f) ==
    CASE f = "mode" -> "Mode must be MANUAL, EGG_TIMER, SCHEDULE, or DISABLED"
      [] f = "rpm" -> "Program RPM must be between 450 and 3450"
      [] f = "schedule_start" -> "Schedule start must have hours 0-23, minutes 0-59"
      [] f = "schedule_end" -> "Schedule end must have hours 0-23, minutes 0-59"
      [] f = "egg_timer" -> "Egg timer must have hours 0-23, minutes 0-59"

ProgramIdDetail == "Program ID must be between 1 and 8"

RunningDetail == "Pump is currently running, cannot modify program"

\* control_program's test of a present field
ProgramCheck(f, v) ==
    CASE f = "mode" -> IF v[1] \in ModeLabels THEN "ok" ELSE "reject"
      [] f = "rpm" -> IF 450 <= v[1] /\ v[1] <= 3450 THEN "ok" ELSE "reject"
      [] OTHER ->
            IF Len(v) = 2 /\ 0 <= v[1] /\ v[1] <= 23 /\ 0 <= v[2] /\ v[2] <= 59
            THEN "ok" ELSE "reject"

\* the value control_program hands to the driver for field f carrying v
ProgramMapped(f, v) == IF f = "mode" THEN <<ModeMap(v[1])>> ELSE v

\* PUMP_MODES of the driver package (imported by main.py): the operating
\* modes of the pump status packet, label to code
PUMP_MODES ==
    [k \in {"FILTER", "MANUAL", "SPEED_1", "SPEED_2", "SPEED_3", "SPEED_4",
            "FEATURE_1", "EXTERNAL_PROGRAM_1", "EXTERNAL_PROGRAM_2",
            "EXTERNAL_PROGRAM_3", "EXTERNAL_PROGRAM_4"} |->
        CASE k = "FILTER" -> 0
          [] k = "MANUAL" -> 1
          [] k = "SPEED_1" -> 2
          [] k = "SPEED_2" -> 3
          [] k = "SPEED_3" -> 4
          [] k = "SPEED_4" -> 5
          [] k = "FEATURE_1" -> 6
          [] k = "EXTERNAL_PROGRAM_1" -> 9
          [] k = "EXTERNAL_PROGRAM_2" -> 10
          [] k = "EXTERNAL_PROGRAM_3" -> 11
          [] k = "EXTERNAL_PROGRAM_4" -> 12]

\* {v: k for k, v in PUMP_MODES.items()}.get(code, "UNKNOWN")
ModeName(code) ==
    IF \E k \in DOMAIN PUMP_MODES : PUMP_MODES[k] = code
    THEN CHOOSE k \in DOMAIN PUMP_MODES : PUMP_MODES[k] = code
    ELSE "UNKNOWN"

\* the attributes get_config reads after the programs, in the order it reads them
ConfigReads ==
    << "dt", "run", "ramp", "celsius", "fahrenheit", "contrast", "address", "id",
       "ampm", "max_rpm", "min_rpm", "quick_rpm", "quick_timer", "prime_enable",
       "prime_max_time", "prime_sensitivity", "prime_delay", "antifreeze_enable",
       "antifreeze_rpm", "antifreeze_temp", "svrs_restart_enable",
       "svrs_restart_timer", "time_out_timer", "RUNNING_PROGRAM" >>

\* the keys get_status looks up in the status the driver returns
StatusKeys == {"run", "rpm", "watts", "mode", "time"}

(***************************************************************************)
(* Request bodies.                                                         *)
(***************************************************************************)
None == [x \in {} |-> <<0>>]

Extend(b, f, v) == [x \in DOMAIN b \cup {f} |-> IF x = f THEN v ELSE b[x]]

\* the values a client sends in a field that is alone in its body: both ends
\* of the range and one unit outside each; for a list also a short one
Vals(f) ==
    CASE f \in BoolFields -> {<<0>>, <<1>>}
      [] f \in TimerFields ->
            {<<0, 0>>, <<9, 59>>, <<10, 0>>, <<0, 60>>, <<-1, 0>>, <<0, -1>>, <<5>>}
      [] f = "mode" -> {<<l>> : l \in ModeLabels \cup {"AUTO"}}
      [] f = "rpm" -> {<<449>>, <<450>>, <<3450>>, <<3451>>}
      [] f \in ClockFields ->
            {<<0, 0>>, <<23, 59>>, <<24, 0>>, <<0, 60>>, <<-1, 0>>, <<5>>}
      [] OTHER ->
            {<<Range(f)[1] - 1>>, <<Range(f)[1]>>, <<Range(f)[2]>>, <<Range(f)[2] + 1>>}

\* the values a client sends in a field of a body of several fields: one
\* that the handler accepts and one that it rejects
CoreVals(f) ==
    CASE f \in BoolFields -> {<<1>>}
      [] f \in TimerFields -> {<<9, 59>>, <<10, 0>>}
      [] f = "mode" -> {<<"DISABLED">>, <<"AUTO">>}
      [] f = "rpm" -> {<<450>>, <<3451>>}
      [] f \in ClockFields -> {<<23, 59>>, <<24, 0>>}
      [] OTHER -> {<<Range(f)[1]>>, <<Range(f)[2] + 1>>}

\* the bodies of at most k fields among those at positions i.. of order
RECURSIVE BodiesFrom(_, _, _)
BodiesFrom(order, i, k) ==
    IF k = 0 \/ i > Len(order) THEN {None}
    ELSE BodiesFrom(order, i + 1, k)
         \cup {Extend(t[1], order[i], t[2]) :
                 t \in BodiesFrom(order, i + 1, k - 1) \X CoreVals(order[i])}

\* the bodies of one field
Singles(FS) == UNION {{Extend(None, f, v) : v \in Vals(f)} : f \in FS}

Bodies(order) ==
    Singles({order[i] : i \in 1..Len(order)}) \cup BodiesFrom(order, 1, MaxFields)

ControlRequests == {[ep |-> "control", body |-> b] : b \in Bodies(FieldOrder)}

\* program_id is required: both ends of 1..8, the last slot /config lists
\* and its successor, and one unit outside each end
ProgramIds == {0, 1, 4, 5, 8, 9}

ProgramRequests ==
    {[ep |-> "program", body |-> Extend(t[1], "program_id", <<t[2]>>)] :
        t \in Bodies(ProgramOrder) \X ProgramIds}

RunRequests == {[ep |-> "run", body |-> Extend(None, "state", v)] : v \in {<<0>>, <<1>>}}

PlainRequests == {[ep |-> e, body |-> None] : e \in {"stop", "status", "config"}}

NoRequest == [ep |-> "none", body |-> None]

Requests == ControlRequests \cup ProgramRequests \cup RunRequests \cup PlainRequests

(***************************************************************************)
(* The device behind the driver.                                           *)
(***************************************************************************)
Regs ==
    {Register(FieldOrder[i]) : i \in 1..NFields}
    \cup {"mode", "rpm", "watts", "time", "dt"}

DevDefault ==
    [g \in Regs |->
        CASE g = "run" -> <<RUN_STOP>>
          [] g = "trpm" -> <<1100>>
          [] g = "RUNNING_PROGRAM" -> <<8>>
          [] g = "mode" -> <<0>>
          [] g = "rpm" -> <<1100>>
          [] g = "watts" -> <<250>>
          [] g = "time" -> <<12, 30>>
          [] g = "dt" -> <<12, 30, 1, 1, 11, 26, 0>>
          [] g \in BoolFields -> <<0>>
          [] g \in TimerFields -> <<0, 10>>
          [] OTHER -> <<Range(g)[1]>>]

\* the pump stopped or started, in a labelled mode (0, 1) or an unlabelled one
DevStates ==
    {[[DevDefault EXCEPT !["run"] = <<r>>] EXCEPT !["mode"] = <<m>>] :
        r \in {RUN_STOP, RUN_START}, m \in {0, 1, 7}}

ProgDefault ==
    [i \in 1..8 |->
        [mode |-> <<0>>, rpm |-> <<1100>>, schedule_start |-> <<8, 0>>,
         schedule_end |-> <<17, 0>>, egg_timer |-> <<0, 30>>]]

\* the slots as shipped, or with one slot in another mode
ProgStates ==
    {ProgDefault}
    \cup {[ProgDefault EXCEPT ![i].mode = <<m>>] : i \in {2, 6}, m \in {2, 3}}

(***************************************************************************)
(* The handlers.                                                           *)
(***************************************************************************)
\* a handler that gives up the event loop after each driver call
HandlerYieldsMut == TRUE

\* the handlers are coroutines ("async def") whose bodies hold no await:
\* a handler that has started keeps the event loop until it returns or raises
HandlerYields == FALSE

\* str(e) of the except clauses for an HTTPException(status, detail):
\* "<status>: <detail>"
StrOf(status, detail) == <<ToString(status), ": ", detail>>

DriverErrorText == <<"DriverError">>

IndexErrorText == <<"list index out of range">>

NoData == <<>>

NoLocal == [programs |-> <<>>, settings |-> <<>>, program |-> <<>>]

Entry(r, op, reg, slot, val, ok) ==
    [req |-> r, op |-> op, reg |-> reg, slot |-> slot, val |-> val, ok |-> ok]

\* a handler's return or raise: the response is sent and the loop is free
Finish(r, status, detail, message, data) ==
    /\ resp' = [resp EXCEPT ![r] =
                  [status |-> status, detail |-> detail, message |-> message,
                   data |-> data]]
    /\ phase' = [phase EXCEPT ![r] = "done"]
    /\ loop' = "idle"
    /\ pc' = pc

\* Except answering 400, as the handlers' own HTTPExceptions ask
ExceptMut(r, text) == Finish(r, 400, text, "", NoData)

\* "except Exception as e: raise HTTPException(status_code=500, detail=str(e))"
Except(r, text) == Finish(r, 500, text, "", NoData)

\* the handler goes on to position n
Advance(r, n) ==
    /\ pc' = [pc EXCEPT ![r] = n]
    /\ loop' = IF HandlerYields THEN "idle" ELSE r
    /\ UNCHANGED <<resp, phase>>

\* the handler of r, for endpoint ep, is the one the event loop runs
Runs(r, ep) ==
    /\ phase[r] = "running"
    /\ request[r].ep = ep
    /\ loop = r \/ (HandlerYields /\ loop = "idle")

\* the client sends the request
Receive(r) ==
    /\ phase[r] = "unsent"
    /\ phase' = [phase EXCEPT ![r] = "pending"]
    /\ UNCHANGED <<request, pc, local, resp, dev, prog, calls, loop>>

\* the event loop starts the handler of a pending request
Dispatch(r) ==
    /\ phase[r] = "pending"
    /\ loop = "idle"
    /\ phase' = [phase EXCEPT ![r] = "running"]
    /\ loop' = r
    /\ UNCHANGED <<request, pc, local, resp, dev, prog, calls>>

\* pump = pypentair.Pump(id=1), the first statement of every handler but
\* control_program's
Connect(r) ==
    /\ \E ep \in {"control", "run", "stop", "status", "config"} : Runs(r, ep)
    /\ pc[r] = 0
    /\ \E ok \in BOOLEAN :
          /\ calls' = Append(calls, Entry(r, "connect", "pump", 0, <<1>>, ok))
          /\ IF ok THEN Advance(r, 1) ELSE Except(r, DriverErrorText)
    /\ UNCHANGED <<request, local, dev, prog>>

\* the first position at or after i of order whose field is present
RECURSIVE NextPresent(_, _, _)
NextPresent(order, body, i) ==
    IF i > Len(order) THEN Len(order) + 1
    ELSE IF order[i] \in DOMAIN body THEN i
    ELSE NextPresent(order, body, i + 1)

\* control_pump: the next present field is tested and, when it passes,
\* assigned to the driver; past the last field the handler returns
ControlStep(r) ==
    /\ Runs(r, "control")
    /\ pc[r] >= 1
    /\ LET body == request[r].body
           i == NextPresent(FieldOrder, body, pc[r])
       IN  IF i > NFields
           THEN /\ Finish(r, 200, <<>>, "", NoData)
                /\ UNCHANGED <<dev, calls>>
           ELSE LET f == FieldOrder[i]
                    v == body[f]
                    c == Check(f, v)
                IN  CASE c = "reject" ->
                            /\ Except(r, StrOf(400, Detail(f)))
                            /\ UNCHANGED <<dev, calls>>
                      [] c = "index" ->
                            /\ Except(r, IndexErrorText)
                            /\ UNCHANGED <<dev, calls>>
                      [] OTHER ->
                            \E ok \in BOOLEAN :
                               /\ calls' = Append(calls,
                                     Entry(r, "write", Register(f), 0, Mapped(f, v), ok))
                               /\ IF ok
                                  THEN /\ dev' = [dev EXCEPT ![Register(f)] = Mapped(f, v)]
                                       /\ Advance(r, i + 1)
                                  ELSE /\ dev' = dev
                                       /\ Except(r, DriverErrorText)
    /\ UNCHANGED <<request, local, prog>>

\* run_pump: pump.run = control.state, then pump.run is read for the log line
RunStep(r) ==
    /\ Runs(r, "run")
    /\ LET state == request[r].body["state"]
       IN  CASE pc[r] = 1 ->
                  \E ok \in BOOLEAN :
                     /\ calls' = Append(calls, Entry(r, "write", "run", 0, state, ok))
                     /\ IF ok
                        THEN /\ dev' = [dev EXCEPT !["run"] = state]
                             /\ Advance(r, 2)
                        ELSE /\ dev' = dev
                             /\ Except(r, DriverErrorText)
             [] pc[r] = 2 ->
                  \E ok \in BOOLEAN :
                     /\ calls' = Append(calls, Entry(r, "read", "run", 0, dev["run"], ok))
                     /\ dev' = dev
                     /\ IF ok
                        THEN Finish(r, 200, <<>>,
                                    IF state[1] # 0 THEN "Pump started" ELSE "Pump stopped",
                                    NoData)
                        ELSE Except(r, DriverErrorText)
             [] OTHER -> FALSE
    /\ UNCHANGED <<request, local, prog>>

\* stop_pump: pump.stop, the driver's stop command
StopStep(r) ==
    /\ Runs(r, "stop")
    /\ pc[r] = 1
    /\ \E ok \in BOOLEAN :
          /\ calls' = Append(calls, Entry(r, "stop", "run", 0, <<RUN_STOP>>, ok))
          /\ IF ok
             THEN /\ dev' = [dev EXCEPT !["run"] = <<RUN_STOP>>]
                  /\ Finish(r, 200, <<>>, "Pump stopped", NoData)
             ELSE /\ dev' = dev
                  /\ Except(r, DriverErrorText)
    /\ UNCHANGED <<request, local, prog>>

\* status.get(key, default)
Get(d, key, default) == IF key \in DOMAIN d THEN d[key] ELSE default

\* StatusResponse taking every run code but the stop code for running
StatusResponseMut(status) ==
    [state |-> Get(status, "run", <<0>>)[1] # RUN_STOP,
     speed |-> Get(status, "rpm", <<0>>)[1],
     watts |-> Get(status, "watts", <<0>>)[1],
     mode |-> ModeName(Get(status, "mode", <<0>>)[1]),
     time |-> <<Get(status, "time", <<0, 0>>)[1], Get(status, "time", <<0, 0>>)[2]>>]

\* the StatusResponse get_status builds from the status the driver returned
StatusResponse(status) ==
    [state |-> Get(status, "run", <<0>>)[1] = RUN_START,
     speed |-> Get(status, "rpm", <<0>>)[1],
     watts |-> Get(status, "watts", <<0>>)[1],
     mode |-> ModeName(Get(status, "mode", <<0>>)[1]),
     time |-> <<Get(status, "time", <<0, 0>>)[1], Get(status, "time", <<0, 0>>)[2]>>]

\* get_status: pump.status is read once; the driver's dictionary holds the
\* device's values for the keys it decoded
StatusStep(r) ==
    /\ Runs(r, "status")
    /\ pc[r] = 1
    /\ \E ok \in BOOLEAN, keys \in SUBSET StatusKeys :
          LET status == [k \in keys |-> dev[k]]
          IN  /\ ok \/ keys = StatusKeys
              /\ calls' = Append(calls, Entry(r, "read", "status", 0, status, ok))
              /\ IF ok
                 THEN Finish(r, 200, <<>>, "", StatusResponse(status))
                 ELSE Except(r, DriverErrorText)
    /\ UNCHANGED <<request, local, dev, prog>>

\* get_config: pump.program(i) for i = 1..4, each summarised at once, then
\* the attributes of ConfigReads one by one, then the response
ConfigStep(r) ==
    /\ Runs(r, "config")
    /\ pc[r] >= 1
    /\ LET n == pc[r]
       IN  CASE n <= 4 ->
                  \E ok \in BOOLEAN :
                     /\ calls' = Append(calls, Entry(r, "read", "program", n, prog[n].mode, ok))
                     /\ IF ~ok
                        THEN Except(r, DriverErrorText) /\ local' = local
                        ELSE IF prog[n].mode[1] + 1 \notin DOMAIN ConfigModeLabels
                        THEN Except(r, IndexErrorText) /\ local' = local
                        ELSE /\ Advance(r, n + 1)
                             /\ local' = [local EXCEPT ![r].programs =
                                   Append(@, [program_id |-> n,
                                              rpm |-> prog[n].rpm,
                                              mode |-> ConfigModeLabels[prog[n].mode[1] + 1],
                                              schedule_start |-> prog[n].schedule_start,
                                              schedule_end |-> prog[n].schedule_end,
                                              egg_timer |-> prog[n].egg_timer])]
             [] n > 4 /\ n <= 4 + Len(ConfigReads) ->
                  LET g == ConfigReads[n - 4]
                      v == IF g = "RUNNING_PROGRAM" THEN <<dev[g][1] \div 8>> ELSE dev[g]
                  IN  \E ok \in BOOLEAN :
                         /\ calls' = Append(calls, Entry(r, "read", g, 0, dev[g], ok))
                         /\ IF ok
                            THEN /\ Advance(r, n + 1)
                                 /\ local' = [local EXCEPT ![r].settings = Append(@, v)]
                            ELSE /\ Except(r, DriverErrorText)
                                 /\ local' = local
             [] OTHER ->
                  /\ Finish(r, 200, <<>>, "",
                            [programs |-> local[r].programs, settings |-> local[r].settings])
                  /\ UNCHANGED <<calls, local>>
    /\ UNCHANGED <<request, dev, prog>>

\* control_program: the program_id test, Pump(id=1), pump.mode for the log
\* line, pump.mode for the running test, pump.program(program_id), then each
\* present field tested and assigned, then the return
ProgramStep(r) ==
    /\ Runs(r, "program")
    /\ LET body == request[r].body
           id == body["program_id"][1]
           n == pc[r]
       IN  CASE n = 0 ->
                  IF ~(1 <= id /\ id <= 8)
                  THEN /\ Except(r, StrOf(400, ProgramIdDetail))
                       /\ UNCHANGED <<calls, local, prog>>
                  ELSE \E ok \in BOOLEAN :
                          /\ calls' = Append(calls, Entry(r, "connect", "pump", 0, <<1>>, ok))
                          /\ IF ok THEN Advance(r, 1) ELSE Except(r, DriverErrorText)
                          /\ UNCHANGED <<local, prog>>
             [] n = 1 ->
                  \E ok \in BOOLEAN :
                     /\ calls' = Append(calls, Entry(r, "read", "mode", 0, dev["mode"], ok))
                     /\ IF ok THEN Advance(r, 2) ELSE Except(r, DriverErrorText)
                     /\ UNCHANGED <<local, prog>>
             [] n = 2 ->
                  \E ok \in BOOLEAN :
                     /\ calls' = Append(calls, Entry(r, "read", "mode", 0, dev["mode"], ok))
                     /\ IF ~ok THEN Except(r, DriverErrorText)
                        ELSE IF dev["mode"][1] # 0
                        THEN Except(r, StrOf(400, RunningDetail))
                        ELSE Advance(r, 3)
                     /\ UNCHANGED <<local, prog>>
             [] n = 3 ->
                  \E ok \in BOOLEAN :
                     /\ calls' = Append(calls, Entry(r, "read", "program", id, prog[id].mode, ok))
                     /\ IF ok
                        THEN /\ Advance(r, 4)
                             /\ local' = [local EXCEPT ![r].program = prog[id]]
                        ELSE /\ Except(r, DriverErrorText)
                             /\ local' = local
                     /\ prog' = prog
             [] OTHER ->
                  LET i == NextPresent(ProgramOrder, body, n - 3)
                  IN  IF i > Len(ProgramOrder)
                      THEN /\ Finish(r, 200, <<>>, "", NoData)
                           /\ UNCHANGED <<calls, local, prog>>
                      ELSE LET f == ProgramOrder[i]
                               v == body[f]
                           IN  IF ProgramCheck(f, v) = "reject"
                               THEN /\ Except(r, StrOf(400, ProgramDetail(f)))
                                    /\ UNCHANGED <<calls, local, prog>>
                               ELSE \E ok \in BOOLEAN :
                                       /\ calls' = Append(calls,
                                             Entry(r, "write", f, id, ProgramMapped(f, v), ok))
                                       /\ IF ok
                                          THEN /\ prog' = [prog EXCEPT ![id][f] = ProgramMapped(f, v)]
                                               /\ Advance(r, i + 4)
                                          ELSE /\ prog' = prog
                                               /\ Except(r, DriverErrorText)
                                       /\ local' = local
    /\ UNCHANGED <<request, dev>>

(***************************************************************************)
(* One request, any endpoint, any body within the bounds.                  *)
(***************************************************************************)
InitRest ==
    /\ phase = [r \in ReqIds |-> IF request[r].ep = "none" THEN "absent" ELSE "unsent"]
    /\ pc = [r \in ReqIds |-> 0]
    /\ local = [r \in ReqIds |-> NoLocal]
    /\ resp = [r \in ReqIds |->
                 [status |-> 0, detail |-> <<>>, message |-> "", data |-> NoData]]
    /\ calls = <<>>
    /\ loop = "idle"

\* control_pump reads nothing from the device and touches no program slot;
\* only get_config and control_program read the slots
Init ==
    /\ request \in {[r \in ReqIds |-> IF r = "A" THEN q ELSE NoRequest] : q \in Requests}
    /\ dev \in (IF request["A"].ep = "control" THEN {DevDefault} ELSE DevStates)
    /\ prog \in (IF request["A"].ep \in {"config", "program"} THEN ProgStates ELSE {ProgDefault})
    /\ InitRest

Next ==
    \E r \in ReqIds :
        \/ Receive(r)
        \/ Dispatch(r)
        \/ Connect(r)
        \/ ControlStep(r)
        \/ RunStep(r)
        \/ StopStep(r)
        \/ StatusStep(r)
        \/ ConfigStep(r)
        \/ ProgramStep(r)

Spec == Init /\ [][Next]_vars

(***************************************************************************)
(* Two requests in flight at once, from a small set of requests.           *)
(***************************************************************************)
\* the fields of the /control bodies of two concurrent requests
ConcOrder == <<"state", "speed", "ramp">>

\* bodies whose fields carry one end of the range, the other end, or one
\* unit more
ConcVals(f) ==
    IF f \in BoolFields THEN {<<0>>, <<1>>}
    ELSE {<<Range(f)[1]>>, <<Range(f)[2]>>, <<Range(f)[2] + 1>>}

RECURSIVE ConcBodiesFrom(_, _)
ConcBodiesFrom(i, k) ==
    IF k = 0 \/ i > Len(ConcOrder) THEN {None}
    ELSE ConcBodiesFrom(i + 1, k)
         \cup {Extend(t[1], ConcOrder[i], t[2]) :
                 t \in ConcBodiesFrom(i + 1, k - 1) \X ConcVals(ConcOrder[i])}

ConcRequests ==
    {[ep |-> "control", body |-> b] : b \in ConcBodiesFrom(1, MaxFields)}
    \cup RunRequests
    \cup PlainRequests
    \cup {[ep |-> "program", body |-> Extend(Extend(None, "mode", <<l>>), "program_id", <<2>>)] :
            l \in {"DISABLED", "SCHEDULE"}}

InitConc ==
    /\ request \in [ReqIds -> ConcRequests]
    /\ dev = DevDefault
    /\ prog = ProgDefault
    /\ InitRest

SpecConc == InitConc /\ [][Next]_vars

(***************************************************************************)
(* What a request has done so far.                                         *)
(***************************************************************************)
Done(r) == phase[r] = "done"

IsReq(r, ep) == request[r].ep = ep

CallsOf(r) == SelectSeq(calls, LAMBDA e : e.req = r)

WritesOf(r) == SelectSeq(calls, LAMBDA e : e.req = r /\ e.op = "write")

NoFailure(r) == \A i \in DOMAIN calls : calls[i].req = r => calls[i].ok

Connected(r) ==
    \E i \in DOMAIN calls : calls[i].req = r /\ calls[i].op = "connect" /\ calls[i].ok

Contains(detail, text) == \E i \in DOMAIN detail : detail[i] = text

(***************************************************************************)
(* C1.  POST /control: when the first present field that fails its check   *)
(* is a ranged field carrying an out-of-range value and no driver call     *)
(* fails, the response has status 400 and its detail is the message that   *)
(* names the field and its range; status 500 is returned only when a       *)
(* driver call failed.                                                     *)
(***************************************************************************)
C1_RangedFields ==
    {"speed", "ramp", "contrast", "address", "id", "max_rpm", "min_rpm", "quick_rpm",
     "quick_timer", "prime_max_time", "prime_sensitivity", "prime_delay",
     "antifreeze_rpm", "antifreeze_temp", "svrs_restart_timer", "time_out_timer",
     "running_program", "selected_program"}

\* the first field of order, at or after i, present in body and failing check
RECURSIVE FirstFailing(_, _, _)
FirstFailing(order, body, i) ==
    IF i > Len(order) THEN "none"
    ELSE IF order[i] \in DOMAIN body
            /\ (IF order[i] \in ProgramFields
                THEN ProgramCheck(order[i], body[order[i]])
                ELSE Check(order[i], body[order[i]])) # "ok"
         THEN order[i]
         ELSE FirstFailing(order, body, i + 1)

C1_RejectedRequest(r) ==
    /\ IsReq(r, "control")
    /\ Done(r)
    /\ NoFailure(r)
    /\ FirstFailing(FieldOrder, request[r].body, 1) \in C1_RangedFields
    /\ Check(FirstFailing(FieldOrder, request[r].body, 1),
             request[r].body[FirstFailing(FieldOrder, request[r].body, 1)]) = "reject"

C1_OutOfRangeIs400 ==
    \A r \in ReqIds :
        /\ C1_RejectedRequest(r) =>
              /\ resp[r].status = 400
              /\ resp[r].detail = <<Detail(FirstFailing(FieldOrder, request[r].body, 1))>>
        /\ (IsReq(r, "control") /\ Done(r) /\ resp[r].status = 500) => ~NoFailure(r)

(***************************************************************************)
(* C2.  POST /control with one ranged field f = v and nothing else, the    *)
(* driver answering every call: the handler issues exactly one write, to   *)
(* the register of f, when v lies in the inclusive range of the table, and *)
(* no write otherwise; the value written is v (v * 8 for running_program); *)
(* an accepted value returns success.                                      *)
(***************************************************************************)
\* the range table of section 4.1
C2_Table(f) ==
    CASE f = "speed" -> <<450, 3450>>
      [] f = "ramp" -> <<100, 200>>
      [] f = "contrast" -> <<1, 3>>
      [] f = "address" -> <<96, 97>>
      [] f = "id" -> <<1, 2>>
      [] f = "max_rpm" -> <<3445, 3450>>
      [] f = "min_rpm" -> <<1100, 1105>>
      [] f = "quick_rpm" -> <<2000, 3000>>
      [] f = "prime_max_time" -> <<1, 30>>
      [] f = "prime_sensitivity" -> <<1, 100>>
      [] f = "prime_delay" -> <<1, 600>>
      [] f = "antifreeze_rpm" -> <<1100, 3000>>
      [] f = "antifreeze_temp" -> <<40, 50>>
      [] f = "svrs_restart_timer" -> <<30, 300>>
      [] f = "running_program" -> <<1, 4>>
      [] f = "selected_program" -> <<1, 8>>

C2_InTable(f, v) ==
    IF f \in {"quick_timer", "time_out_timer"}
    THEN 0 <= v[1] /\ v[1] <= 9 /\ 0 <= v[2] /\ v[2] <= 59
    ELSE C2_Table(f)[1] <= v[1] /\ v[1] <= C2_Table(f)[2]

C2_Written(f, v) == IF f = "running_program" THEN <<v[1] * 8>> ELSE v

\* r is a finished /control request of the one ranged field f, an integer
\* or a pair, and the driver answered every call
C2_Single(r, f) ==
    /\ IsReq(r, "control")
    /\ Done(r)
    /\ NoFailure(r)
    /\ DOMAIN request[r].body = {f}
    /\ f \in C1_RangedFields
    /\ f \in {"quick_timer", "time_out_timer"} => Len(request[r].body[f]) = 2

C2_WriteIffInRange ==
    \A r \in ReqIds : \A f \in C1_RangedFields :
        C2_Single(r, f) =>
            LET v == request[r].body[f]
                W == WritesOf(r)
            IN  IF C2_InTable(f, v)
                THEN /\ Len(W) = 1
                     /\ W[1].val = C2_Written(f, v)
                     /\ dev[W[1].reg] = C2_Written(f, v)
                     /\ resp[r].status = 200
                ELSE /\ Len(W) = 0
                     /\ resp[r].status # 200

C2_Witness ==
    /\ C2_Single("A", "speed")
    /\ request["A"].body["speed"] = <<450>>
    /\ Len(WritesOf("A")) = 1
    /\ resp["A"].status = 200

(***************************************************************************)
(* C3.  POST /control handles its present fields in one fixed order, each  *)
(* tested just before it is written: the writes issued so far are those of *)
(* the first present fields, in that order, each once and each accepted;   *)
(* when the k-th present field is the first to fail its test, exactly the  *)
(* k-1 earlier present fields have been written and the device still holds *)
(* their values.                                                           *)
(***************************************************************************)
C3_Order ==
    << "state", "speed", "ramp", "celsius", "fahrenheit", "contrast", "address",
       "id", "ampm", "max_rpm", "min_rpm", "quick_rpm", "quick_timer",
       "prime_enable", "prime_max_time", "prime_sensitivity", "prime_delay",
       "antifreeze_enable", "antifreeze_rpm", "antifreeze_temp",
       "svrs_restart_enable", "svrs_restart_timer", "time_out_timer",
       "running_program", "selected_program" >>

C3_Present(body) == SelectSeq(C3_Order, LAMBDA f : f \in DOMAIN body)

\* the position in P of the first field the handler rejects, else Len(P) + 1
RECURSIVE C3_FirstRejected(_, _, _)
C3_FirstRejected(P, body, i) ==
    IF i > Len(P) THEN Len(P) + 1
    ELSE IF Check(P[i], body[P[i]]) # "ok" THEN i
    ELSE C3_FirstRejected(P, body, i + 1)

C3_ValidationFailed(r) ==
    /\ IsReq(r, "control")
    /\ Done(r)
    /\ NoFailure(r)
    /\ Connected(r)
    /\ C3_FirstRejected(C3_Present(request[r].body), request[r].body, 1)
          <= Len(C3_Present(request[r].body))

C3_OrderedPrefix ==
    \A r \in ReqIds :
        IsReq(r, "control") =>
            LET body == request[r].body
                P == C3_Present(body)
                W == WritesOf(r)
                k == C3_FirstRejected(P, body, 1)
            IN  /\ Len(W) < k
                /\ \A i \in 1..Len(W) :
                      /\ W[i].reg = Register(P[i])
                      /\ W[i].val = Mapped(P[i], body[P[i]])
                /\ C3_ValidationFailed(r) =>
                      /\ Len(W) = k - 1
                      /\ \A i \in 1..(k - 1) : dev[Register(P[i])] = W[i].val

C3_Witness ==
    /\ C3_ValidationFailed("A")
    /\ Len(WritesOf("A")) = 1
    /\ C3_FirstRejected(C3_Present(request["A"].body), request["A"].body, 1) = 2

(***************************************************************************)
(* C4.  POST /program with program_id outside 1..8: the response is HTTP   *)
(* 400 with the message about the program ID, and the request makes no     *)
(* driver call at all.                                                     *)
(***************************************************************************)
C4_BadId(r) ==
    /\ IsReq(r, "program")
    /\ Done(r)
    /\ ~(request[r].body["program_id"][1] \in 1..8)

C4_BadIdIs400 ==
    \A r \in ReqIds :
        C4_BadId(r) =>
            /\ resp[r].status = 400
            /\ resp[r].detail = <<ProgramIdDetail>>
            /\ Len(CallsOf(r)) = 0

(***************************************************************************)
(* C5.  POST /program with program_id in 1..8 while the operating mode     *)
(* read at the start of the request is non-zero: the response is HTTP 400  *)
(* with a detail containing "cannot modify program", and no program-slot   *)
(* register is written.                                                    *)
(***************************************************************************)
C5_RefusedRunning(r) ==
    /\ IsReq(r, "program")
    /\ Done(r)
    /\ NoFailure(r)
    /\ request[r].body["program_id"][1] \in 1..8
    /\ \E i \in DOMAIN calls :
          /\ calls[i].req = r
          /\ calls[i].op = "read"
          /\ calls[i].reg = "mode"
          /\ calls[i].val[1] # 0

C5_RunningIs400 ==
    \A r \in ReqIds :
        C5_RefusedRunning(r) =>
            /\ resp[r].status = 400
            /\ Contains(resp[r].detail, RunningDetail)
            /\ Len(WritesOf(r)) = 0

(***************************************************************************)
(* C6.  POST /control and POST /program: an absent field causes no write   *)
(* and no error.  Every write a request issues is to the register of a     *)
(* field present in it, a step of the request changes no other register    *)
(* and no other program slot, and a request with no optional field         *)
(* (/program: valid program_id, operating mode 0) whose driver calls all   *)
(* succeed issues no write and returns success.                            *)
(***************************************************************************)
C6_FieldRegister(f) ==
    CASE f = "state" -> "run"
      [] f = "speed" -> "trpm"
      [] f = "running_program" -> "RUNNING_PROGRAM"
      [] OTHER -> f

C6_PresentRegs(r) ==
    {C6_FieldRegister(f) : f \in DOMAIN request[r].body \ {"program_id"}}

C6_NoOptionalField(r) ==
    /\ Done(r)
    /\ NoFailure(r)
    /\ \/ IsReq(r, "control") /\ DOMAIN request[r].body = {}
       \/ /\ IsReq(r, "program")
          /\ DOMAIN request[r].body = {"program_id"}
          /\ request[r].body["program_id"][1] \in 1..8
          /\ dev["mode"][1] = 0

C6_WritesOnlyPresent ==
    \A r \in ReqIds :
        (IsReq(r, "control") \/ IsReq(r, "program")) =>
            /\ \A i \in DOMAIN calls :
                  (calls[i].req = r /\ calls[i].op = "write") =>
                      /\ calls[i].reg \in C6_PresentRegs(r)
                      /\ IsReq(r, "program") =>
                            calls[i].slot = request[r].body["program_id"][1]
            /\ C6_NoOptionalField(r) =>
                  /\ Len(WritesOf(r)) = 0
                  /\ resp[r].status = 200

\* the request whose handler made the driver call of this step, if any
C6_Stepper(r) == Len(calls') = Len(calls) + 1 /\ calls'[Len(calls')].req = r

C6_StepFrame ==
    /\ Len(calls') = Len(calls) => dev' = dev /\ prog' = prog
    /\ \A r \in ReqIds :
          (C6_Stepper(r) /\ (IsReq(r, "control") \/ IsReq(r, "program"))) =>
              /\ \A g \in Regs : dev'[g] # dev[g] => IsReq(r, "control") /\ g \in C6_PresentRegs(r)
              /\ \A i \in 1..8 : \A f \in ProgramFields :
                    prog'[i][f] # prog[i][f] =>
                        /\ IsReq(r, "program")
                        /\ i = request[r].body["program_id"][1]
                        /\ f \in DOMAIN request[r].body

C6_AbsentFieldsUntouched == [](C6_WritesOnlyPresent) /\ [][C6_StepFrame]_vars

C6_Witness ==
    /\ IsReq("A", "program")
    /\ C6_NoOptionalField("A")
    /\ Len(CallsOf("A")) = 4
    /\ resp["A"].status = 200

(***************************************************************************)
(* C7.  A driver call that fails ends the request: the response is HTTP    *)
(* 500 with the driver's error text, the request issues no further driver  *)
(* call (no later write, no second attempt), and no request repeats a      *)
(* driver operation, but for POST /program, which reads the operating mode *)
(* twice (once for its log line, once for the running test).               *)
(***************************************************************************)
C7_Key(e) == <<e.op, e.reg, e.slot>>

C7_FailureEnds(r) ==
    \A i \in DOMAIN calls :
        (calls[i].req = r /\ ~calls[i].ok) =>
            /\ Done(r)
            /\ resp[r].status = 500
            /\ resp[r].detail = DriverErrorText
            /\ \A j \in DOMAIN calls : j > i => calls[j].req # r

C7_AtMostOnce(r) ==
    \A i, j \in DOMAIN calls :
        (i < j /\ calls[i].req = r /\ calls[j].req = r) => C7_Key(calls[i]) # C7_Key(calls[j])

C7_AtMostOnceButMode(r) ==
    /\ \A i, j \in DOMAIN calls :
          (i < j /\ calls[i].req = r /\ calls[j].req = r
               /\ C7_Key(calls[i]) = C7_Key(calls[j])) =>
              /\ IsReq(r, "program")
              /\ C7_Key(calls[i]) = <<"read", "mode", 0>>
              /\ calls[i].ok
    /\ \A i, j, k \in DOMAIN calls :
          (i < j /\ j < k /\ calls[i].req = r /\ calls[j].req = r /\ calls[k].req = r) =>
              ~(C7_Key(calls[i]) = C7_Key(calls[j]) /\ C7_Key(calls[j]) = C7_Key(calls[k]))

\* the claim as stated: every driver operation at most once per request
C7_FailureIs500Once == \A r \in ReqIds : C7_FailureEnds(r) /\ C7_AtMostOnce(r)

C7_FailureIs500 == \A r \in ReqIds : C7_FailureEnds(r) /\ C7_AtMostOnceButMode(r)

C7_Witness ==
    /\ IsReq("A", "control")
    /\ Done("A")
    /\ Len(CallsOf("A")) = 3
    /\ CallsOf("A")[2].ok
    /\ ~CallsOf("A")[3].ok
    /\ Cardinality(DOMAIN request["A"].body) = 2
    /\ resp["A"].status = 500

(***************************************************************************)
(* C8.  POST /run, the driver answering every call: one write to the run   *)
(* register, the stop code 0x04 for state=false and the start code 0x0A    *)
(* for state=true (the codes POST /control writes), and a success message  *)
(* saying "stopped" or "started".                                          *)
(***************************************************************************)
C8_RunDone(r) == IsReq(r, "run") /\ Done(r) /\ NoFailure(r)

C8_RunWritesCode ==
    \A r \in ReqIds :
        C8_RunDone(r) =>
            LET W == WritesOf(r)
                on == request[r].body["state"][1] # 0
            IN  /\ Len(W) = 1
                /\ W[1].reg = "run"
                /\ W[1].val = IF on THEN <<10>> ELSE <<4>>
                /\ resp[r].status = 200
                /\ resp[r].message = IF on THEN "Pump started" ELSE "Pump stopped"

(***************************************************************************)
(* C9.  GET /status: state is true exactly when the status holds run code  *)
(* 0x0A (false for any other code and when the code is missing); speed and *)
(* watts are 0 when missing; mode is the label of the mode value, a        *)
(* missing value counting as 0, which is labelled FILTER, and "UNKNOWN"    *)
(* when the value has no label.                                            *)
(***************************************************************************)
C9_StatusDone(r) == IsReq(r, "status") /\ Done(r) /\ resp[r].status = 200

\* the status dictionary the driver returned to r
C9_Read(r) == CallsOf(r)[2].val

C9_Common(r) ==
    LET d == C9_Read(r)
        out == resp[r].data
    IN  /\ out.state = ("run" \in DOMAIN d /\ d["run"][1] = 10)
        /\ out.speed = IF "rpm" \in DOMAIN d THEN d["rpm"][1] ELSE 0
        /\ out.watts = IF "watts" \in DOMAIN d THEN d["watts"][1] ELSE 0
        /\ ("mode" \in DOMAIN d /\ d["mode"][1] = 7) => out.mode = "UNKNOWN"
        /\ ("mode" \in DOMAIN d /\ d["mode"][1] = 1) => out.mode = "MANUAL"

C10_Writes == SelectSeq(calls, LAMBDA e : e.op \in {"write", "stop"})

C10_NoWriteBetween ==
    \A i, j, k \in DOMAIN C10_Writes :
        (i < j /\ j < k /\ C10_Writes[i].req = C10_Writes[k].req) =>
            C10_Writes[j].req = C10_Writes[i].req

\* the device after the successful writes of r, in their order, from state d
RECURSIVE C10_Apply(_, _, _)
C10_Apply(r, d, i) ==
    IF i > Len(calls) THEN d
    ELSE LET e == calls[i]
         IN  IF e.req = r /\ e.op \in {"write", "stop"} /\ e.ok
             THEN C10_Apply(r,
                     IF e.slot = 0
                     THEN [d EXCEPT !.dev[e.reg] = e.val]
                     ELSE [d EXCEPT !.prog[e.slot][e.reg] = e.val],
                     i + 1)
             ELSE C10_Apply(r, d, i + 1)

C10_Start == [dev |-> DevDefault, prog |-> ProgDefault]

C10_SerialOutcome ==
    (\A r \in ReqIds : Done(r)) =>
        \/ [dev |-> dev, prog |-> prog] = C10_Apply("B", C10_Apply("A", C10_Start, 1), 1)
        \/ [dev |-> dev, prog |-> prog] = C10_Apply("A", C10_Apply("B", C10_Start, 1), 1)

C10_Serialized == C10_NoWriteBetween /\ C10_SerialOutcome

\* r is a /control request whose body holds two accepted fields
C10_TwoWrites(r) ==
    /\ IsReq(r, "control")
    /\ Cardinality(DOMAIN request[r].body) = 2
    /\ \A f \in DOMAIN request[r].body : Check(f, request[r].body[f]) = "ok"

\* a has issued the first of its two writes and b, received, waits
C10_BetweenWrites(a, b) ==
    /\ a # b
    /\ C10_TwoWrites(a)
    /\ C10_TwoWrites(b)
    /\ phase[a] = "running"
    /\ Len(WritesOf(a)) = 1
    /\ phase[b] = "pending"

\* the claim as stated: access is not serialized, so that while A is between
\* two of its writes the handler of B, in flight, may start and write
C10_NotSerialized ==
    \A a, b \in ReqIds : C10_BetweenWrites(a, b) => ENABLED Dispatch(b)

C10_Witness ==
    /\ C10_BetweenWrites("A", "B")
    /\ request["A"].body["speed"] # request["B"].body["speed"]
    /\ loop = "A"

(***************************************************************************)
(* C11.  GET /config after a successful POST /program that set the mode of *)
(* a slot: the response is 200 with 4 program summaries, for slots 1..4 in *)
(* order, and the slot the request wrote is reported with the label it     *)
(* wrote, DISABLED included.                                               *)
(***************************************************************************)
\* p is a POST /program that set a mode and succeeded before c, a GET
\* /config whose driver calls all succeeded, made its first call
C11_ConfigAfterProgram(p, c) ==
    /\ IsReq(p, "program")
    /\ "mode" \in DOMAIN request[p].body
    /\ Done(p)
    /\ resp[p].status = 200
    /\ IsReq(c, "config")
    /\ Done(c)
    /\ NoFailure(c)
    /\ \A i, j \in DOMAIN calls : (calls[i].req = p /\ calls[j].req = c) => i < j

C11_ConfigReportsModes ==
    \A p, c \in ReqIds :
        C11_ConfigAfterProgram(p, c) =>
            /\ resp[c].status = 200
            /\ Len(resp[c].data.programs) = 4
            /\ \A i \in 1..4 :
                  /\ resp[c].data.programs[i].program_id = i
                  /\ i = request[p].body["program_id"][1] =>
                        resp[c].data.programs[i].mode = request[p].body["mode"][1]

(***************************************************************************)
(* C12.  Program slots are written only while the pump is not running, in  *)
(* the sense of GET /status: no step of a POST /program request writes a   *)
(* program-slot register while the device's run code is 0x0A.              *)
(***************************************************************************)
\* this step is a program-slot write of r
C12_SlotWrite(r) ==
    /\ IsReq(r, "program")
    /\ Len(calls') = Len(calls) + 1
    /\ calls'[Len(calls')].req = r
    /\ calls'[Len(calls')].op = "write"

C12_NoSlotWriteWhileRunning ==
    [][\A r \in ReqIds : C12_SlotWrite(r) => dev["run"] # <<10>>]_vars

====
